---- MODULE Spec2Model ----
(***************************************************************************)
(* Model of src/lib.rs: the AppState state machine (Uninitialized /        *)
(* Initialized), the three ApplicationHandler callbacks (resumed,          *)
(* window_event, user_event), App::new, App::render and App::resize, on    *)
(* both build targets (cfg(not(target_arch = "wasm32")) and                *)
(* cfg(target_arch = "wasm32")).  The window/event host and the GPU        *)
(* library are the environment: the host chooses which event it delivers   *)
(* next, the GPU library chooses whether an acquisition succeeds.          *)
(***************************************************************************)
EXTENDS Integers, Sequences, FiniteSets, TLC

\* Number of callbacks the host delivers in one run.
MaxEvents == 6

\* Widths and heights a Resized event may carry (u32; 0 is the zero-area case).
Widths == {0, 450, 800}
Heights == {0, 400, 600}

\* Sizes window.inner_size() may report when App::new reads it (u32 pair; the
\* host reports 0 by 0 for a window without area, e.g. one that starts minimized).
InnerSizes == {<<0, 0>>, <<450, 400>>, <<800, 600>>}

Targets == {"native", "wasm32"}

VARIABLES
    target,     \* build target: selects the cfg branches
    state,      \* the AppState value handed to run_app / spawn_app
    loop,       \* event loop: "running", "exited" (exit called), "panicked"
    queue,      \* CustomEvents sent through the EventLoopProxy, not yet delivered
    tasks,      \* futures given to spawn_local (wasm32 only)
    nwindows,   \* windows created so far
    calls,      \* calls on event loop / surface / encoder / queue made by the last step
    last,       \* the event the last step handled
    nev,        \* callbacks delivered so far
    presents,   \* frames presented so far
    scen        \* progress of the delivered events along Scenario, -1 once off it

vars == <<target, state, loop, queue, tasks, nwindows, calls, last, nev, presents, scen>>

Call(op, args) == [op |-> op, args |-> args]

\* wgpu::Color { r: 0.1, g: 0.2, b: 0.3, a: 1.0 }, in tenths.
clear_color == <<1, 2, 3, 10>>

SurfaceConfiguration(w, h) ==
    [usage |-> "RENDER_ATTACHMENT",
     format |-> "Bgra8Unorm",
     width |-> w,
     height |-> h,
     present_mode |-> "present_modes[0]",
     alpha_mode |-> "alpha_modes[0]",
     view_formats |-> <<"Bgra8UnormSrgb">>,
     desired_maximum_frame_latency |-> 2]

\* The configuration in force on a Surface: none until configure is called.
Unconfigured == [configured |-> FALSE, width |-> 0, height |-> 0]
Configured(cfg) == [configured |-> TRUE, width |-> cfg.width, height |-> cfg.height]

GfxState(window, surface, surface_config) ==
    [window |-> window, surface |-> surface, surface_config |-> surface_config]

Uninitialized == [tag |-> "Uninitialized"]
Initialized(app) == [tag |-> "Initialized", app |-> app]

CustomEvent(app) == [tag |-> "Initialized", app |-> app]

\* App::new after both acquisitions succeeded: lines 65-125.
AppNew(tgt, window, size) ==
    LET cfg == SurfaceConfiguration(size[1], size[2])
    IN  GfxState(window,
                 IF tgt = "native" THEN Configured(cfg) ELSE Unconfigured,
                 cfg)

AppNewCalls(tgt, size) ==
    IF tgt = "native" THEN <<Call("configure", size)>> ELSE <<>>

\* surface.configure in App::new is handed the inner size unchecked; the GPU
\* library rejects a zero-area configuration with a fatal validation error.
AppNewPanics(tgt, size) ==
    tgt = "native" /\ (size[1] = 0 \/ size[2] = 0)

\* resize with the size test weakened to "either dimension positive".
resize_either_positive(app, size) ==
    IF size[1] > 0 \/ size[2] > 0
    THEN LET cfg == [app.surface_config EXCEPT !.width = size[1], !.height = size[2]]
         IN  [app |-> [app EXCEPT !.surface_config = cfg, !.surface = Configured(cfg)],
              calls |-> <<Call("configure", <<cfg.width, cfg.height>>)>>]
    ELSE [app |-> app, calls |-> <<>>]

\* resize storing the width and the height in each other's field.
resize_swapped(app, size) ==
    IF size[1] > 0 /\ size[2] > 0
    THEN LET cfg == [app.surface_config EXCEPT !.width = size[2], !.height = size[1]]
         IN  [app |-> [app EXCEPT !.surface_config = cfg, !.surface = Configured(cfg)],
              calls |-> <<Call("configure", <<cfg.width, cfg.height>>)>>]
    ELSE [app |-> app, calls |-> <<>>]

\* App::resize
resize(app, size) ==
    IF size[1] > 0 /\ size[2] > 0
    THEN LET cfg == [app.surface_config EXCEPT !.width = size[1], !.height = size[2]]
         IN  [app |-> [app EXCEPT !.surface_config = cfg, !.surface = Configured(cfg)],
              calls |-> <<Call("configure", <<cfg.width, cfg.height>>)>>]
    ELSE [app |-> app, calls |-> <<>>]

\* render presenting the frame before the commands are submitted.
render_present_first(app, textureOk) ==
    IF app.surface.configured /\ textureOk
    THEN [result |-> "Ok",
          calls |-> <<Call("get_current_texture", <<app.surface.width, app.surface.height>>),
                      Call("begin_render_pass", <<1>> \o clear_color),
                      Call("set_pipeline", <<>>),
                      Call("draw", <<0, 3, 0, 1>>),
                      Call("present", <<app.surface.width, app.surface.height>>),
                      Call("submit", <<1>>)>>]
    ELSE [result |-> "panic",
          calls |-> <<Call("get_current_texture", <<>>)>>]

\* render leaving out frame.present().
render_no_present(app, textureOk) ==
    IF app.surface.configured /\ textureOk
    THEN [result |-> "Ok",
          calls |-> <<Call("get_current_texture", <<app.surface.width, app.surface.height>>),
                      Call("begin_render_pass", <<1>> \o clear_color),
                      Call("set_pipeline", <<>>),
                      Call("draw", <<0, 3, 0, 1>>),
                      Call("submit", <<1>>)>>]
    ELSE [result |-> "panic",
          calls |-> <<Call("get_current_texture", <<>>)>>]

\* App::render.  textureOk: the GPU library's answer to get_current_texture
\* on a configured surface.  The acquisition result is unwrapped.
render(app, textureOk) ==
    IF app.surface.configured /\ textureOk
    THEN [result |-> "Ok",
          calls |-> <<Call("get_current_texture", <<app.surface.width, app.surface.height>>),
                      Call("begin_render_pass", <<1>> \o clear_color),
                      Call("set_pipeline", <<>>),
                      Call("draw", <<0, 3, 0, 1>>),
                      Call("submit", <<1>>),
                      Call("present", <<app.surface.width, app.surface.height>>)>>]
    ELSE [result |-> "panic",
          calls |-> <<Call("get_current_texture", <<>>)>>]

Resized(w, h) == [kind |-> "Resized", size |-> <<w, h>>]
RedrawRequested == [kind |-> "RedrawRequested", size |-> <<>>]
CloseRequested == [kind |-> "CloseRequested", size |-> <<>>]
OtherWindowEvent == [kind |-> "Other", size |-> <<>>]

WindowEvents ==
    {Resized(w, h) : w \in Widths, h \in Heights}
        \cup {RedrawRequested, CloseRequested, OtherWindowEvent}

\* window_event forwarding Resized to the surface before looking at the state.
window_event_resize_first(st, event, textureOk) ==
    IF st.tag = "Uninitialized"
    THEN [state |-> st,
          calls |-> IF event.kind = "Resized" /\ event.size[1] > 0 /\ event.size[2] > 0
                    THEN <<Call("configure", event.size)>>
                    ELSE <<>>,
          loop |-> "running"]
    ELSE CASE event.kind = "Resized" ->
                LET r == resize(st.app, event.size)
                IN  [state |-> Initialized(r.app), calls |-> r.calls, loop |-> "running"]
           [] event.kind = "RedrawRequested" ->
                LET r == render(st.app, textureOk)
                IN  IF r.result = "Ok"
                    THEN [state |-> st, calls |-> r.calls, loop |-> "running"]
                    ELSE [state |-> st, calls |-> r.calls, loop |-> "panicked"]
           [] event.kind = "CloseRequested" ->
                [state |-> st, calls |-> <<Call("exit", <<>>)>>, loop |-> "exited"]
           [] OTHER ->
                [state |-> st, calls |-> <<>>, loop |-> "running"]

\* window_event answering every other window event with a resize to 450 by 400.
window_event_other_resizes(st, event, textureOk) ==
    IF st.tag = "Uninitialized"
    THEN [state |-> st, calls |-> <<>>, loop |-> "running"]
    ELSE CASE event.kind = "Resized" ->
                LET r == resize(st.app, event.size)
                IN  [state |-> Initialized(r.app), calls |-> r.calls, loop |-> "running"]
           [] event.kind = "RedrawRequested" ->
                LET r == render(st.app, textureOk)
                IN  IF r.result = "Ok"
                    THEN [state |-> st, calls |-> r.calls, loop |-> "running"]
                    ELSE [state |-> st, calls |-> r.calls, loop |-> "panicked"]
           [] event.kind = "CloseRequested" ->
                [state |-> st, calls |-> <<Call("exit", <<>>)>>, loop |-> "exited"]
           [] OTHER ->
                LET r == resize(st.app, <<450, 400>>)
                IN  [state |-> Initialized(r.app), calls |-> r.calls, loop |-> "running"]

\* AppState::window_event
window_event(st, event, textureOk) ==
    IF st.tag = "Uninitialized"
    THEN [state |-> st, calls |-> <<>>, loop |-> "running"]
    ELSE CASE event.kind = "Resized" ->
                LET r == resize(st.app, event.size)
                IN  [state |-> Initialized(r.app), calls |-> r.calls, loop |-> "running"]
           [] event.kind = "RedrawRequested" ->
                LET r == render(st.app, textureOk)
                IN  CASE r.result = "Ok" ->
                            [state |-> st, calls |-> r.calls, loop |-> "running"]
                      [] r.result = "Err" ->
                            [state |-> st,
                             calls |-> r.calls \o <<Call("eprintln", <<>>)>>,
                             loop |-> "running"]
                      [] OTHER ->
                            [state |-> st, calls |-> r.calls, loop |-> "panicked"]
           [] event.kind = "CloseRequested" ->
                [state |-> st, calls |-> <<Call("exit", <<>>)>>, loop |-> "exited"]
           [] OTHER ->
                [state |-> st, calls |-> <<>>, loop |-> "running"]

\* user_event assigning the signalled App whatever the state is.
user_event_overwrite(st, ev) == Initialized(ev.app)

\* user_event dropping back to Uninitialized on a signal while Initialized.
user_event_reset(st, ev) ==
    IF st.tag = "Uninitialized" THEN Initialized(ev.app) ELSE Uninitialized

\* AppState::user_event
user_event(st, ev) ==
    IF st.tag = "Uninitialized" THEN Initialized(ev.app) ELSE st

Presented(cs) == Cardinality({i \in 1..Len(cs) : cs[i].op = "present"})

\* The end-to-end scenario of the handler: resume, init signal, resize, redraw.
Scenario ==
    <<[kind |-> "resumed"], [kind |-> "user_event"],
      [kind |-> "window_event", event |-> Resized(800, 600)],
      [kind |-> "window_event", event |-> RedrawRequested]>>

Advance(s, ev) ==
    IF s >= 0 /\ s < Len(Scenario) /\ Scenario[s + 1] = ev THEN s + 1 ELSE -1

Init ==
    /\ target \in Targets
    /\ state = Uninitialized
    /\ loop = "running"
    /\ queue = <<>>
    /\ tasks = <<>>
    /\ nwindows = 0
    /\ calls = <<>>
    /\ last = [kind |-> "run"]
    /\ nev = 0
    /\ presents = 0
    /\ scen = 0

\* Init signals not yet delivered: queued, or still to be sent by a future.
Pending ==
    Len(queue)
      + Cardinality({i \in 1..Len(tasks) :
                        tasks[i].pc \in {"request_adapter", "request_device"}})

\* The host delivers at most MaxEvents callbacks, and of resume and window
\* events (cost: the callback and the signal it may cause) only as many as
\* leave room for the delivery of every pending init signal.
HostEvent(cost) == nev + Pending + cost <= MaxEvents

Deliver(ev) ==
    /\ loop = "running"
    /\ nev' = nev + 1
    /\ last' = ev
    /\ scen' = Advance(scen, ev)

\* resumed, cfg(not(target_arch = "wasm32")): the window is created and
\* App::new is run to completion by pollster::block_on inside the callback.
ResumedNative ==
    /\ target = "native"
    /\ HostEvent(IF state.tag = "Uninitialized" THEN 2 ELSE 1)
    /\ Deliver([kind |-> "resumed"])
    /\ IF state.tag = "Uninitialized"
       THEN \E adapterOk \in BOOLEAN, deviceOk \in BOOLEAN, size \in InnerSizes :
              LET window == nwindows + 1
                  created == <<Call("create_window", <<window>>)>>
              IN  /\ nwindows' = window
                  /\ CASE ~(adapterOk /\ deviceOk) ->
                            /\ queue' = queue
                            /\ calls' = created
                            /\ loop' = "panicked"
                       [] adapterOk /\ deviceOk /\ AppNewPanics(target, size) ->
                            /\ queue' = queue
                            /\ calls' = created \o AppNewCalls(target, size)
                            /\ loop' = "panicked"
                       [] OTHER ->
                            /\ queue' = Append(queue, CustomEvent(AppNew(target, window, size)))
                            /\ calls' = created \o AppNewCalls(target, size)
                                          \o <<Call("send_event", <<window>>)>>
                            /\ loop' = loop
       ELSE /\ calls' = <<>>
            /\ UNCHANGED <<nwindows, queue, loop>>
    /\ UNCHANGED <<target, state, tasks, presents>>

\* resumed, cfg(target_arch = "wasm32"): the window is created and the
\* construction is handed to spawn_local.
ResumedWasm ==
    /\ target = "wasm32"
    /\ HostEvent(IF state.tag = "Uninitialized" THEN 2 ELSE 1)
    /\ Deliver([kind |-> "resumed"])
    /\ IF state.tag = "Uninitialized"
       THEN LET window == nwindows + 1
            IN  /\ nwindows' = window
                /\ tasks' = Append(tasks, [window |-> window, pc |-> "request_adapter"])
                /\ calls' = <<Call("create_window", <<window>>),
                              Call("request_inner_size", <<450, 400>>),
                              Call("spawn_local", <<window>>)>>
       ELSE /\ calls' = <<>>
            /\ UNCHANGED <<nwindows, tasks>>
    /\ UNCHANGED <<target, state, loop, queue, presents>>

\* The spawned future up to the end of request_adapter(..).await.unwrap().
TaskAdapter ==
    /\ loop # "panicked"
    /\ \E i \in 1..Len(tasks), adapterOk \in BOOLEAN :
         /\ tasks[i].pc = "request_adapter"
         /\ tasks' = [tasks EXCEPT ![i].pc =
                         IF adapterOk THEN "request_device" ELSE "panicked"]
    /\ calls' = <<>>
    /\ last' = [kind |-> "task"]
    /\ UNCHANGED <<target, state, loop, queue, nwindows, nev, presents, scen>>

\* The spawned future from request_device(..).await.unwrap() to its end:
\* the rest of App::new and the send_event.
TaskDevice ==
    /\ loop # "panicked"
    /\ \E i \in 1..Len(tasks), deviceOk \in BOOLEAN, size \in InnerSizes :
         /\ tasks[i].pc = "request_device"
         /\ CASE ~deviceOk ->
                   /\ tasks' = [tasks EXCEPT ![i].pc = "panicked"]
                   /\ queue' = queue
                   /\ calls' = <<>>
              [] deviceOk /\ AppNewPanics(target, size) ->
                   /\ tasks' = [tasks EXCEPT ![i].pc = "configure_panicked"]
                   /\ queue' = queue
                   /\ calls' = AppNewCalls(target, size)
              [] deviceOk /\ ~AppNewPanics(target, size) /\ loop # "running" ->
                   /\ tasks' = [tasks EXCEPT ![i].pc = "send_failed"]
                   /\ queue' = queue
                   /\ calls' = AppNewCalls(target, size)
              [] OTHER ->
                   /\ tasks' = [tasks EXCEPT ![i].pc = "done"]
                   /\ queue' = Append(queue, CustomEvent(AppNew(target, tasks[i].window, size)))
                   /\ calls' = AppNewCalls(target, size)
                                  \o <<Call("send_event", <<tasks[i].window>>)>>
    /\ last' = [kind |-> "task"]
    /\ UNCHANGED <<target, state, loop, nwindows, nev, presents, scen>>

WindowEvent ==
    \E event \in WindowEvents, textureOk \in BOOLEAN :
        LET r == window_event(state, event, textureOk)
        IN  /\ HostEvent(1)
            /\ Deliver([kind |-> "window_event", event |-> event])
            /\ state' = r.state
            /\ calls' = r.calls
            /\ loop' = r.loop
            /\ presents' = presents + Presented(r.calls)
            /\ UNCHANGED <<target, queue, tasks, nwindows>>

\* user_event delivery that hands the handler a copy and leaves the signal queued.
UserEvent_copy ==
    /\ queue # <<>>
    /\ nev < MaxEvents
    /\ Deliver([kind |-> "user_event"])
    /\ state' = user_event(state, Head(queue))
    /\ queue' = queue
    /\ calls' = <<>>
    /\ UNCHANGED <<target, loop, tasks, nwindows, presents>>

UserEvent ==
    /\ queue # <<>>
    /\ nev < MaxEvents
    /\ Deliver([kind |-> "user_event"])
    /\ state' = user_event(state, Head(queue))
    /\ queue' = Tail(queue)
    /\ calls' = <<>>
    /\ UNCHANGED <<target, loop, tasks, nwindows, presents>>

Next ==
    \/ ResumedNative
    \/ ResumedWasm
    \/ TaskAdapter
    \/ TaskDevice
    \/ WindowEvent
    \/ UserEvent

Spec == Init /\ [][Next]_vars

\* The spawned future is polled until it completes and the host delivers the
\* user events queued through the proxy.
LiveSpec ==
    Spec /\ WF_vars(TaskAdapter) /\ WF_vars(TaskDevice) /\ WF_vars(UserEvent)

----------------------------------------------------------------------------
(* Properties *)

Called(op) == \E i \in 1..Len(calls) : calls[i].op = op

Ops(cs) == [i \in 1..Len(cs) |-> cs[i].op]

Handled(kind) == last.kind = kind

HandledWindowEvent(kind) == last.kind = "window_event" /\ last.event.kind = kind

\* The last step was a render whose get_current_texture returned a frame.
ObtainedFrame ==
    /\ HandledWindowEvent("RedrawRequested")
    /\ calls # <<>>
    /\ calls[1].op = "get_current_texture"
    /\ calls[1].args # <<>>

\* An initialization is in flight: a construction is running or its signal
\* has been sent and not yet consumed.
InFlight ==
    \/ queue # <<>>
    \/ \E i \in 1..Len(tasks) : tasks[i].pc \in {"request_adapter", "request_device"}

\* C1: in every state (Uninitialized, Uninitialized with initialization in
\* flight, Initialized) handling CloseRequested calls exit on the event loop.
C1_CloseAlwaysExits ==
    HandledWindowEvent("CloseRequested") => (Called("exit") /\ loop = "exited")

\* C2: a resume event delivered while an initialization is in flight or while
\* Initialized creates no window, starts no construction and sends no signal.
C2_SecondResumeNoOp ==
    [][(/\ nev' = nev + 1
        /\ last'.kind = "resumed"
        /\ (state.tag = "Initialized" \/ InFlight))
       => (nwindows' = nwindows /\ tasks' = tasks /\ queue' = queue)]_vars

\* C3: when get_current_texture fails on the configured surface of an
\* Initialized state, the failure is logged by window_event, the frame is
\* skipped and the loop keeps running in state Initialized.
C3_AcquireFailureNotFatal ==
    (/\ HandledWindowEvent("RedrawRequested")
     /\ state.tag = "Initialized"
     /\ state.app.surface.configured
     /\ ~ObtainedFrame)
    => (loop = "running" /\ Called("eprintln") /\ ~Called("present"))

\* C4: a window event handled while Uninitialized leaves the state
\* Uninitialized and neither resizes, renders nor configures a surface.
C4_UninitializedDropsWindowEvents ==
    [][(/\ nev' = nev + 1
        /\ last'.kind = "window_event"
        /\ state.tag = "Uninitialized")
       => (/\ state' = state
           /\ presents' = presents
           /\ \A i \in 1..Len(calls') :
                calls'[i].op \notin {"configure", "get_current_texture",
                                     "begin_render_pass", "set_pipeline",
                                     "draw", "submit", "present"})]_vars

C4_Witness ==
    /\ state.tag = "Uninitialized"
    /\ nev >= 3
    /\ HandledWindowEvent("Resized")
    /\ last.event.size = <<800, 600>>
    /\ InFlight

\* C5: the variant of the state changes only from Uninitialized to
\* Initialized, only in the step handling an init signal, and never back.
C5_SingleTransition ==
    [][(state'.tag # state.tag)
       => (/\ state.tag = "Uninitialized"
           /\ state'.tag = "Initialized"
           /\ nev' = nev + 1
           /\ last'.kind = "user_event"
           /\ queue # <<>>
           /\ state'.app = Head(queue).app)]_vars

C5_Witness ==
    /\ state.tag = "Initialized"
    /\ Handled("user_event")
    /\ nev >= 4
    /\ nwindows >= 2

\* C6: an init signal handled while Initialized leaves the state, with its
\* App and stored surface configuration, as it was, and the App carried by
\* the signal is dropped.
C6_LateSignalNoOp ==
    [][(/\ nev' = nev + 1
        /\ last'.kind = "user_event"
        /\ state.tag = "Initialized")
       => (/\ state' = state
           /\ queue' = Tail(queue)
           /\ state'.app.window # Head(queue).app.window)]_vars

C6_Witness ==
    /\ target = "native"
    /\ loop = "running"
    /\ nwindows = 2
    /\ queue = <<>>
    /\ Handled("user_event")
    /\ state.tag = "Initialized"
    /\ state.app.window = 1

\* C7: Resized with a zero width or a zero height, handled while
\* Initialized, changes neither the stored surface configuration nor the
\* surface, makes no call and reports nothing.
C7_ZeroResizeIgnored ==
    [][(/\ nev' = nev + 1
        /\ last'.kind = "window_event"
        /\ last'.event.kind = "Resized"
        /\ (last'.event.size[1] = 0 \/ last'.event.size[2] = 0)
        /\ state.tag = "Initialized")
       => (state' = state /\ calls' = <<>> /\ loop' = "running")]_vars

C7_Witness ==
    /\ state.tag = "Initialized"
    /\ HandledWindowEvent("Resized")
    /\ last.event.size[1] = 0
    /\ last.event.size[2] > 0

\* C8: Resized(w, h) with w > 0 and h > 0, handled while Initialized, sets
\* the stored surface configuration to width w and height h, leaves its other
\* fields alone, and configures the surface exactly once with it.
C8_PositiveResizeReconfigures ==
    [][(/\ nev' = nev + 1
        /\ last'.kind = "window_event"
        /\ last'.event.kind = "Resized"
        /\ last'.event.size[1] > 0
        /\ last'.event.size[2] > 0
        /\ state.tag = "Initialized")
       => (/\ state'.tag = "Initialized"
           /\ state'.app.window = state.app.window
           /\ state'.app.surface_config =
                [state.app.surface_config EXCEPT !.width = last'.event.size[1],
                                                 !.height = last'.event.size[2]]
           /\ calls' = <<Call("configure", last'.event.size)>>
           /\ state'.app.surface = Configured(state'.app.surface_config))]_vars

C8_Witness ==
    /\ state.tag = "Initialized"
    /\ HandledWindowEvent("Resized")
    /\ last.event.size = <<800, 600>>
    /\ state.app.surface_config.width = 800
    /\ state.app.surface_config.height = 600
    /\ target = "wasm32"

\* C9: a render that obtains a frame makes, in this order, exactly these
\* calls: get_current_texture, begin_render_pass with one colour attachment
\* cleared to (0.1, 0.2, 0.3, 1.0), set_pipeline, draw(0..3, 0..1), one
\* submit, one present.
C9_RenderSequence ==
    ObtainedFrame
    => (/\ Ops(calls) = <<"get_current_texture", "begin_render_pass", "set_pipeline",
                          "draw", "submit", "present">>
        /\ calls[2].args = <<1, 1, 2, 3, 10>>
        /\ calls[4].args = <<0, 3, 0, 1>>
        /\ calls[5].args = <<1>>)

C9_Witness == ObtainedFrame /\ loop = "running" /\ presents >= 1

AcquisitionFailed ==
    \/ /\ target = "native"
       /\ loop = "panicked"
       /\ Handled("resumed")
       /\ Ops(calls) = <<"create_window">>
    \/ \E i \in 1..Len(tasks) : tasks[i].pc = "panicked"

\* C11: once an adapter or device acquisition has failed, no callback is
\* handled any more, no init signal is sent and the state does not change, on
\* the blocking and on the background-task path.
C11_AcquisitionFailureTerminates ==
    [][AcquisitionFailed => (nev' = nev /\ queue' = queue /\ state' = state)]_vars

\* C12: every surface.configure call, the one of App::new and the one of
\* resize, is made with a positive width and a positive height.
C12_ConfigurePositive ==
    \A i \in 1..Len(calls) :
        calls[i].op = "configure" => (calls[i].args[1] > 0 /\ calls[i].args[2] > 0)

\* C13: whenever the state is Initialized its surface has been configured, so
\* every render is preceded by a surface configuration, on both paths.
C13_InitializedIsConfigured ==
    state.tag = "Initialized" => state.app.surface.configured

\* C14: once a resume has been handled while Uninitialized, the state
\* eventually becomes Initialized unless an adapter or device acquisition fails.
C14_EventuallyInitialized ==
    (nwindows >= 1) ~> (state.tag = "Initialized" \/ AcquisitionFailed)

QueuedWindows == {queue[i].app.window : i \in 1..Len(queue)}

ConstructingWindows ==
    {tasks[i].window : i \in {j \in 1..Len(tasks) :
                                tasks[j].pc \in {"request_adapter", "request_device"}}}

\* C15: a graphics context has one holder at a time: the queued signals carry
\* pairwise different contexts, none of them is the one held by the state, and
\* a future still constructing shares its context with neither.
C15_SingleOwner ==
    /\ Cardinality(QueuedWindows) = Len(queue)
    /\ state.tag = "Initialized" => state.app.window \notin QueuedWindows
    /\ ConstructingWindows \cap QueuedWindows = {}
    /\ state.tag = "Initialized" => state.app.window \notin ConstructingWindows

C15_Witness ==
    /\ state.tag = "Initialized"
    /\ Handled("user_event")
    /\ queue # <<>>

\* C16: in state Initialized the variant and the stored surface configuration
\* change only in a step that handles Resized with both dimensions positive.
C16_OnlyResizeChangesConfig ==
    [][(/\ state.tag = "Initialized"
        /\ (\/ state'.tag # state.tag
            \/ state'.app.surface_config # state.app.surface_config))
       => (/\ state'.tag = "Initialized"
           /\ nev' = nev + 1
           /\ last'.kind = "window_event"
           /\ last'.event.kind = "Resized"
           /\ last'.event.size[1] > 0
           /\ last'.event.size[2] > 0)]_vars

C16_Witness ==
    /\ state.tag = "Initialized"
    /\ HandledWindowEvent("Other")
    /\ nev >= 4
    /\ state.app.surface_config.width = 800
    /\ state.app.surface_config.height = 600

====
